---- MODULE Spec2Model ----
(***************************************************************************)
(* Pre-commit hashing for RNG aggregation (src/pre_commit_hashing.py).     *)
(*                                                                         *)
(* Python bytes are sequences of integers 0..255, an int is an unbounded   *)
(* integer.  A call either returns a value, [st |-> "ok", val |-> v], or   *)
(* raises, [st |-> "raise", exc |-> name].                                 *)
(*                                                                         *)
(* Four specifications share the variables:                                *)
(*   SpecXor      one call of xor_all                                      *)
(*   SpecCommit   generate, then verify of a reveal against the hash       *)
(*   SpecChannel  encrypt, then decrypt                                    *)
(*   SpecMain     the requestor's round, main(), statement by statement    *)
(* The variables of the other three keep the value Unused.                 *)
(***************************************************************************)
EXTENDS Integers, Sequences, FiniteSets, TLC

VARIABLES x, xor_ret,
          gen_args, gen_ret, ver_args, ver_ret,
          enc_args, encrypted, dec_args, dec_ret,
          pc, loc

vars == <<x, xor_ret, gen_args, gen_ret, ver_args, ver_ret,
          enc_args, encrypted, dec_args, dec_ret, pc, loc>>

xorVars == <<x, xor_ret>>
commitVars == <<gen_args, gen_ret, ver_args, ver_ret>>
channelVars == <<enc_args, encrypted, dec_args, dec_ret>>
mainVars == <<pc, loc>>

(***************************************************************************)
(* Bounds of the model.                                                    *)
(***************************************************************************)
\* bytes 0..MaxByte (and 255, the top byte) are the bytes secrets are drawn from
MaxByte == 1
\* secrets, forged bytes and declared lengths are at most MaxLen bytes long
MaxLen == 2
\* xor_all is called on lists of at most MaxList byte strings
MaxList == 2
\* nonces 0..MaxNonce (and 256, the first two-byte nonce)
MaxNonce == 2

\* number_bytes = 32 of main(), the length of the end-to-end scenario's secrets
NumberBytes == 32

ByteVals == (0..MaxByte) \cup {255}
NonceVals == (0..MaxNonce) \cup {256}
Rep(n, b) == [k \in 1..n |-> b]
ByteStringsOfLen(n) == [1..n -> ByteVals]
ByteStrings == UNION {ByteStringsOfLen(n) : n \in 0..MaxLen}
\* b'deadbeef' * 4, the forged bytes of main()
DeadBeef4 == [k \in 1..32 |-> <<100, 101, 97, 100, 98, 101, 101, 102>>[((k - 1) % 8) + 1]]
\* 32 bytes of 0x11, 32 bytes of 0xFF: the secrets of the end-to-end scenario
Ones32 == Rep(NumberBytes, 17)
Effs32 == Rep(NumberBytes, 255)

Unused == [st |-> "unused"]
Pending == [st |-> "pending"]
Ok(v) == [st |-> "ok", val |-> v]
Raise(e) == [st |-> "raise", exc |-> e]
\* an optional argument: None, or a value that was passed
None == [given |-> FALSE]
Some(v) == [given |-> TRUE, val |-> v]

Min(a, b) == IF a <= b THEN a ELSE b

(***************************************************************************)
(* Integer and byte arithmetic of the Python built-ins the code uses.      *)
(***************************************************************************)
\* a ^ b on ints >= 0
RECURSIVE BitXor(_, _)
BitXor(a, b) ==
    IF a = 0 /\ b = 0 THEN 0
    ELSE (((a % 2) + (b % 2)) % 2) + 2 * BitXor(a \div 2, b \div 2)

\* a | b on ints >= 0 (used by a mutant only)
RECURSIVE BitOr(_, _)
BitOr(a, b) ==
    IF a = 0 /\ b = 0 THEN 0
    ELSE (IF a % 2 = 1 \/ b % 2 = 1 THEN 1 ELSE 0) + 2 * BitOr(a \div 2, b \div 2)

\* int.bit_length() for an int >= 0
RECURSIVE BitLength(_)
BitLength(n) == IF n = 0 THEN 0 ELSE 1 + BitLength(n \div 2)

\* int.to_bytes(length, 'big') for an int >= 0 that fits
ToBytesBig(n, length) == [k \in 1..length |-> (n \div (256 ^ (length - k))) % 256]

\* b without its leading zero bytes
StripLeadingZeros(b) ==
    LET nonzero == {k \in 1..Len(b) : b[k] # 0}
    IN  IF nonzero = {} THEN << >>
        ELSE SubSeq(b, CHOOSE k \in nonzero : \A j \in nonzero : k <= j, Len(b))

\* the big-endian value of the bytes b
RECURSIVE BigEndian(_)
BigEndian(b) ==
    IF Len(b) = 0 THEN 0
    ELSE 256 * BigEndian(SubSeq(b, 1, Len(b) - 1)) + b[Len(b)]

\* int.from_bytes(b, 'big'): leading zero bytes do not count
FromBytesBig(b) == BigEndian(StripLeadingZeros(b))

\* Python's ints are unbounded, the model's are 32-bit: the calls modelled are
\* those whose int.from_bytes reads at most three significant bytes
FitsInt(b) == Len(StripLeadingZeros(b)) <= 3

\* bytes(n) for an int n >= 0: n zero bytes
ZeroBytes(n) == [k \in 1..n |-> 0]

\* b[:n] and b[n:] for n >= 0
SlicePrefix(b, n) == SubSeq(b, 1, Min(n, Len(b)))
SliceSuffix(b, n) == SubSeq(b, Min(n, Len(b)) + 1, Len(b))

(***************************************************************************)
(* xor_all                                                                 *)
(***************************************************************************)
\* mutant: the operands are or-ed instead of xor-ed
XorZipOr(r, y) == [k \in 1..Min(Len(r), Len(y)) |-> BitOr(r[k], y[k])]

\* bytes([a ^ b for a, b in zip(r, y)]): zip stops at the shorter operand
XorZip(r, y) == [k \in 1..Min(Len(r), Len(y)) |-> BitXor(r[k], y[k])]

\* the loop of xor_all, i the (1-based) index of the next operand
RECURSIVE XorLoop(_, _, _)
XorLoop(xs, i, result) ==
    IF i > Len(xs) THEN result
    ELSE XorLoop(xs, i + 1, XorZip(result, xs[i]))

\* mutant: the loop stops one operand early
xor_all_short(xs) ==
    IF Len(xs) = 0 THEN Raise("IndexError")
    ELSE Ok(XorLoop(SubSeq(xs, 1, Len(xs) - 1), 2, xs[1]))

\* x[0] of an empty list raises IndexError
xor_all(xs) ==
    IF Len(xs) = 0 THEN Raise("IndexError")
    ELSE Ok(XorLoop(xs, 2, xs[1]))

\* the lists xor_all is called on
XorInputs ==
    UNION {[1..n -> ByteStrings] : n \in 0..MaxList}
      \cup {<<Ones32, Effs32>>, <<Effs32, Ones32>>, <<Ones32>>}

InitXor ==
    /\ x \in XorInputs
    /\ xor_ret = Pending
    /\ gen_args = Unused /\ gen_ret = Unused /\ ver_args = Unused /\ ver_ret = Unused
    /\ enc_args = Unused /\ encrypted = Unused /\ dec_args = Unused /\ dec_ret = Unused
    /\ pc = "unused" /\ loc = Unused

CallXorAll ==
    /\ xor_ret = Pending
    /\ xor_ret' = xor_all(x)
    /\ UNCHANGED <<x, commitVars, channelVars, mainVars>>

NextXor == CallXorAll

SpecXor == InitXor /\ [][NextXor]_vars

(***************************************************************************)
(* Claims about xor_all, under SpecXor.                                    *)
(***************************************************************************)
XorDone == xor_ret # Pending /\ xor_ret # Unused
AllSameLen(xs) == \A i, j \in 1..Len(xs) : Len(xs[i]) = Len(xs[j])
AllZero(b) == \A k \in 1..Len(b) : b[k] = 0
\* bit k of the int n >= 0
Bit(n, k) == (n \div (2 ^ k)) % 2

\* C4: on a non-empty list of equal-length byte strings xor_all returns a byte
\* string of the operands' length; each bit of its i-th byte is the parity of
\* that bit over the i-th bytes of all the elements; a one-element list gives
\* the element; 32 bytes of 0x11 and 32 bytes of 0xFF give 32 bytes of 0xEE.
C4_XorAllBytewise ==
    (XorDone /\ Len(x) >= 1 /\ AllSameLen(x)) =>
        /\ xor_ret.st = "ok"
        /\ Len(xor_ret.val) = Len(x[1])
        /\ \A i \in 1..Len(x[1]) : \A k \in 0..7 :
              Bit(xor_ret.val[i], k)
                = Cardinality({j \in 1..Len(x) : Bit(x[j][i], k) = 1}) % 2
        /\ (Len(x) = 1 => xor_ret.val = x[1])
        /\ (x = <<Ones32, Effs32>> => xor_ret.val = Rep(NumberBytes, 238))

C4_Witness == x = <<Ones32, Effs32>> /\ xor_ret = Ok(Rep(NumberBytes, 238))

\* C5: whenever the elements of the list do not all have the same length,
\* xor_all fails with an error and returns no value.
C5_LengthMismatchRaises ==
    (XorDone /\ Len(x) >= 1 /\ ~AllSameLen(x)) => xor_ret.st = "raise"

\* C6 as stated: for s1 # s2 of the same length, xor_all([s1, s2]) differs
\* from s1 and from s2.
C6_NoOpFalsification ==
    (XorDone /\ Len(x) = 2 /\ x[1] # x[2] /\ Len(x[1]) = Len(x[2])) =>
        /\ xor_ret.st = "ok"
        /\ xor_ret.val # x[1]
        /\ xor_ret.val # x[2]

\* C6 amended: for s1 # s2 of the same length, xor_all([s1, s2]) equals s1
\* exactly when s2 is all zero bytes and equals s2 exactly when s1 is all zero
\* bytes; it differs from both when neither operand is all zero.
C6_NoOpUnlessZero ==
    (XorDone /\ Len(x) = 2 /\ x[1] # x[2] /\ Len(x[1]) = Len(x[2])) =>
        /\ xor_ret.st = "ok"
        /\ (xor_ret.val = x[1]) <=> AllZero(x[2])
        /\ (xor_ret.val = x[2]) <=> AllZero(x[1])

C6_Witness ==
    /\ XorDone /\ Len(x) = 2 /\ x[1] # x[2] /\ Len(x[1]) = Len(x[2])
    /\ ~AllZero(x[1]) /\ ~AllZero(x[2])
    /\ xor_ret.st = "ok" /\ xor_ret.val # x[1] /\ xor_ret.val # x[2]

(***************************************************************************)
(* int_to_bytes, generate, verify                                          *)
(***************************************************************************)
\* x.to_bytes((x.bit_length() + 7) // 8, 'big') for an int x >= 0: the
\* shortest big-endian encoding, the empty string for 0
int_to_bytes(n) == ToBytesBig(n, (BitLength(n) + 7) \div 8)

\* bytes_to_int
bytes_to_int(b) == FromBytesBig(b)

\* hashlib.sha256(b).digest(): a digest without collisions, one value per
\* preimage
sha256(b) == [sha256 |-> b]

\* dev_urandom_entropy(n): any n bytes.  Up to MaxLen bytes every string over
\* ByteVals, beyond that the strings of one repeated byte.
dev_urandom_entropy(n) ==
    IF n <= MaxLen THEN ByteStringsOfLen(n) ELSE {Rep(n, b) : b \in ByteVals}

\* generate(n, nonce, forged_bytes): the pairs (random_bytes, random_hash) a
\* call can return, one per draw of the entropy source
generate(n, nonce, forged_bytes) ==
    {<<random_bytes, sha256(random_bytes \o int_to_bytes(nonce))>> :
        random_bytes \in IF forged_bytes = None THEN dev_urandom_entropy(n)
                         ELSE {forged_bytes.val}}

\* mutant: the nonce is left out of the hashed bytes
verify_without_nonce(random_bytes, nonce, random_hash) ==
    random_hash = sha256(random_bytes)

verify(random_bytes, nonce, random_hash) ==
    random_hash = sha256(random_bytes \o int_to_bytes(nonce))

InitCommit ==
    /\ gen_args \in [n : 0..MaxLen, nonce : NonceVals,
                     forged_bytes : {None} \cup {Some(b) : b \in ByteStrings}]
    /\ gen_ret = Pending /\ ver_args = Pending /\ ver_ret = Pending
    /\ x = Unused /\ xor_ret = Unused
    /\ enc_args = Unused /\ encrypted = Unused /\ dec_args = Unused /\ dec_ret = Unused
    /\ pc = "unused" /\ loc = Unused

CallGenerate ==
    /\ gen_ret = Pending
    /\ \E r \in generate(gen_args.n, gen_args.nonce, gen_args.forged_bytes) :
          gen_ret' = Ok(r)
    /\ UNCHANGED <<gen_args, ver_args, ver_ret, xorVars, channelVars, mainVars>>

\* the node reveals the secret and the nonce it committed to
VerifyReveal ==
    /\ gen_ret.st = "ok" /\ ver_ret = Pending
    /\ ver_args' = [random_bytes |-> gen_ret.val[1], nonce |-> gen_args.nonce,
                    random_hash |-> gen_ret.val[2]]
    /\ ver_ret' = Ok(verify(ver_args'.random_bytes, ver_args'.nonce,
                            ver_args'.random_hash))
    /\ UNCHANGED <<gen_args, gen_ret, xorVars, channelVars, mainVars>>

\* another secret or another nonce is checked against the published hash
VerifyOther ==
    /\ gen_ret.st = "ok" /\ ver_ret = Pending
    /\ \E s \in ByteStrings, n \in NonceVals :
          /\ <<s, n>> # <<gen_ret.val[1], gen_args.nonce>>
          /\ ver_args' = [random_bytes |-> s, nonce |-> n,
                          random_hash |-> gen_ret.val[2]]
          /\ ver_ret' = Ok(verify(s, n, gen_ret.val[2]))
    /\ UNCHANGED <<gen_args, gen_ret, xorVars, channelVars, mainVars>>

NextCommit == CallGenerate \/ VerifyReveal \/ VerifyOther

SpecCommit == InitCommit /\ [][NextCommit]_vars

(***************************************************************************)
(* Claims about generate and verify, under SpecCommit.                     *)
(***************************************************************************)
GenDone == gen_ret # Pending /\ gen_ret # Unused
VerDone == ver_ret # Pending /\ ver_ret # Unused
RevealIsCommitted ==
    /\ ver_args.random_bytes = gen_ret.val[1]
    /\ ver_args.nonce = gen_args.nonce

\* C2: the pair (secret, hash) that generate returned for nonce n, with a
\* forced secret or with one drawn from the entropy source, verifies:
\* verify(secret, n, hash) is true.
C2_CommitmentCompleteness ==
    (VerDone /\ RevealIsCommitted) =>
        /\ gen_args.forged_bytes # None => gen_ret.val[1] = gen_args.forged_bytes.val
        /\ ver_ret = Ok(TRUE)

C2_Witness ==
    /\ VerDone /\ RevealIsCommitted /\ ver_ret = Ok(TRUE)
    /\ gen_args.forged_bytes # None /\ gen_args.n = Len(gen_args.forged_bytes.val)
    /\ gen_args.nonce = 256 /\ Len(gen_ret.val[1]) = MaxLen

\* C3: int_to_bytes is injective on the nonces, and for a pair (s2, n2) other
\* than the committed (s1, n1) the hashed bytes s2 || int_to_bytes(n2) differ
\* from s1 || int_to_bytes(n1), so verify(s2, n2, hash) is false.
C3_CommitmentBinding ==
    /\ \A n1, n2 \in NonceVals : n1 # n2 => int_to_bytes(n1) # int_to_bytes(n2)
    /\ (VerDone /\ ~RevealIsCommitted) =>
          /\ ver_args.random_bytes \o int_to_bytes(ver_args.nonce)
               # gen_ret.val[1] \o int_to_bytes(gen_args.nonce)
          /\ ver_ret = Ok(FALSE)

\* C7: generate rejects a secret length of 0 with an error; every pair it
\* returns has a secret of exactly the requested length n >= 1, also when a
\* forced secret is supplied.
C7_GenerateLength ==
    GenDone =>
        /\ gen_args.n = 0 => gen_ret.st = "raise"
        /\ gen_ret.st = "ok" => (gen_args.n >= 1 /\ Len(gen_ret.val[1]) = gen_args.n)

(***************************************************************************)
(* encrypt, decrypt                                                        *)
(***************************************************************************)
\* randy the requestor, alice and bob the nodes: PrivateKey.generate() gives
\* each party a key pair of its own
Parties == {"randy", "alice", "bob"}
PrivateKey(p) == [sk |-> p]
PublicKey(p) == [pk |-> p]

\* Box(private_key, public_key): the key the two parties share; the box of
\* (a's private key, b's public key) is the box of (b's private, a's public)
Box(private_key, public_key) == {private_key.sk, public_key.pk}

\* box.encrypt(plaintext): authenticated encryption under the box' key (the
\* random transport nonce is not represented)
BoxEncrypt(box, plaintext) == [box |-> box, plaintext |-> plaintext]

\* box.decrypt(encrypted): the plaintext, or CryptoError under another key
BoxDecrypt(box, enc) ==
    IF enc.box = box THEN Ok(enc.plaintext) ELSE Raise("CryptoError")

\* encrypt: the payload is random_bytes + bytes(nonce), and bytes(nonce) is
\* nonce zero bytes
encrypt(random_bytes, nonce, private_key, public_key) ==
    BoxEncrypt(Box(private_key, public_key), random_bytes \o ZeroBytes(nonce))

\* decrypt: the first n bytes of the payload and the rest read as an int
decrypt(n, enc, private_key, public_key) ==
    LET decrypted == BoxDecrypt(Box(private_key, public_key), enc)
    IN  IF decrypted.st = "raise" THEN decrypted
        ELSE Ok(<<SlicePrefix(decrypted.val, n),
                  FromBytesBig(SliceSuffix(decrypted.val, n))>>)

InitChannel ==
    /\ enc_args \in [random_bytes : ByteStrings, nonce : NonceVals,
                     private_key : {PrivateKey(p) : p \in Parties},
                     public_key : {PublicKey(p) : p \in Parties}]
    /\ encrypted = Pending /\ dec_args = Pending /\ dec_ret = Pending
    /\ x = Unused /\ xor_ret = Unused
    /\ gen_args = Unused /\ gen_ret = Unused /\ ver_args = Unused /\ ver_ret = Unused
    /\ pc = "unused" /\ loc = Unused

CallEncrypt ==
    /\ encrypted = Pending
    /\ encrypted' = Ok(encrypt(enc_args.random_bytes, enc_args.nonce,
                               enc_args.private_key, enc_args.public_key))
    /\ UNCHANGED <<enc_args, dec_args, dec_ret, xorVars, commitVars, mainVars>>

CallDecrypt ==
    /\ encrypted.st = "ok" /\ dec_ret = Pending
    /\ \E n \in 0..MaxLen, r, s \in Parties :
          /\ Box(PrivateKey(r), PublicKey(s)) = encrypted.val.box
                => FitsInt(SliceSuffix(encrypted.val.plaintext, n))
          /\ dec_args' = [n |-> n, private_key |-> PrivateKey(r),
                          public_key |-> PublicKey(s)]
          /\ dec_ret' = decrypt(n, encrypted.val, PrivateKey(r), PublicKey(s))
    /\ UNCHANGED <<enc_args, encrypted, xorVars, commitVars, mainVars>>

NextChannel == CallEncrypt \/ CallDecrypt

SpecChannel == InitChannel /\ [][NextChannel]_vars

(***************************************************************************)
(* Claims about encrypt and decrypt, under SpecChannel.                    *)
(***************************************************************************)
DecDone == dec_ret # Pending /\ dec_ret # Unused
\* the recipient decrypts with its private key and the sender's public key
DecryptedByRecipient ==
    /\ dec_args.private_key.sk = enc_args.public_key.pk
    /\ dec_args.public_key.pk = enc_args.private_key.sk

\* C1: decrypt(n, encrypt(secret, nonce, skA, pkB), skB, pkA) returns exactly
\* (secret, nonce) for every secret of length n and every nonce >= 0.
C1_RoundTrip ==
    (DecDone /\ DecryptedByRecipient /\ dec_args.n = Len(enc_args.random_bytes)) =>
        dec_ret = Ok(<<enc_args.random_bytes, enc_args.nonce>>)

\* C8: decrypt fails, and returns no (secret, nonce) pair, when the
\* authenticated payload is shorter than the expected secret length n; it
\* never returns a secret whose length differs from n.
C8_MalformedPayload ==
    (DecDone /\ DecryptedByRecipient) =>
        /\ Len(encrypted.val.plaintext) < dec_args.n => dec_ret.st = "raise"
        /\ dec_ret.st = "ok" => Len(dec_ret.val[1]) = dec_args.n

(***************************************************************************)
(* main(): the requestor's round, one action per statement.  pc names the  *)
(* line of the next statement; loc holds the locals, Unbound before their  *)
(* assignment.  The source requests nonce = 0 and number_bytes = 32 and    *)
(* lets bob forge b'deadbeef' * 4; the request and the forged bytes are    *)
(* drawn here from the bounded sets as well.                               *)
(***************************************************************************)
Unbound == [unbound |-> TRUE]
randy == PrivateKey("randy")
alice == PrivateKey("alice")
bob == PrivateKey("bob")
public_key(private_key) == PublicKey(private_key.sk)

\* the requests (nonce, number_bytes) and forged bytes of a round
MainInputs ==
    {c \in [nonce : NonceVals, number_bytes : 0..MaxLen, forged_bytes : ByteStrings] :
        FitsInt(SliceSuffix(c.forged_bytes \o ZeroBytes(c.nonce), c.number_bytes))}
      \cup {[nonce |-> 0, number_bytes |-> NumberBytes, forged_bytes |-> DeadBeef4]}

InitMain ==
    /\ pc = "l104"
    /\ \E c \in MainInputs :
          loc = [nonce |-> c.nonce, number_bytes |-> c.number_bytes,
                 forged_bytes |-> c.forged_bytes,
                 random_bytes_alice |-> Unbound, random_hash_alice |-> Unbound,
                 random_bytes_bob |-> Unbound, random_hash_bob |-> Unbound,
                 encrypted_alice |-> Unbound, encrypted_bob |-> Unbound,
                 decrypted_alice |-> Unbound, nonce_alice |-> Unbound,
                 decrypted_bob |-> Unbound, nonce_bob |-> Unbound,
                 final_random_number |-> Unbound]
    /\ x = Unused /\ xor_ret = Unused
    /\ gen_args = Unused /\ gen_ret = Unused /\ ver_args = Unused /\ ver_ret = Unused
    /\ enc_args = Unused /\ encrypted = Unused /\ dec_args = Unused /\ dec_ret = Unused

otherVars == <<xorVars, commitVars, channelVars>>

\* random_bytes_alice, random_hash_alice = generate(number_bytes, nonce)
GenerateAlice ==
    /\ pc = "l104"
    /\ \E r \in generate(loc.number_bytes, loc.nonce, None) :
          loc' = [loc EXCEPT !.random_bytes_alice = r[1], !.random_hash_alice = r[2]]
    /\ pc' = "l105"
    /\ UNCHANGED otherVars

\* random_bytes_bob, random_hash_bob = generate(number_bytes, nonce, forged_bytes=...)
GenerateBob ==
    /\ pc = "l105"
    /\ \E r \in generate(loc.number_bytes, loc.nonce, Some(loc.forged_bytes)) :
          loc' = [loc EXCEPT !.random_bytes_bob = r[1], !.random_hash_bob = r[2]]
    /\ pc' = "l108"
    /\ UNCHANGED otherVars

EncryptAlice ==
    /\ pc = "l108"
    /\ loc' = [loc EXCEPT !.encrypted_alice =
                  encrypt(loc.random_bytes_alice, loc.nonce, alice, public_key(randy))]
    /\ pc' = "l109"
    /\ UNCHANGED otherVars

EncryptBob ==
    /\ pc = "l109"
    /\ loc' = [loc EXCEPT !.encrypted_bob =
                  encrypt(loc.random_bytes_bob, loc.nonce, bob, public_key(randy))]
    /\ pc' = "l113"
    /\ UNCHANGED otherVars

DecryptAlice ==
    /\ pc = "l113"
    /\ LET r == decrypt(loc.number_bytes, loc.encrypted_alice, randy, public_key(alice))
       IN  IF r.st = "raise"
           THEN pc' = r.exc /\ loc' = loc
           ELSE /\ loc' = [loc EXCEPT !.decrypted_alice = r.val[1],
                                      !.nonce_alice = r.val[2]]
                /\ pc' = "l114"
    /\ UNCHANGED otherVars

DecryptBob ==
    /\ pc = "l114"
    /\ LET r == decrypt(loc.number_bytes, loc.encrypted_bob, randy, public_key(bob))
       IN  IF r.st = "raise"
           THEN pc' = r.exc /\ loc' = loc
           ELSE /\ loc' = [loc EXCEPT !.decrypted_bob = r.val[1],
                                      !.nonce_bob = r.val[2]]
                /\ pc' = "l115"
    /\ UNCHANGED otherVars

\* assert verify(decrypted_alice, nonce_alice, random_hash_alice)
AssertAlice ==
    /\ pc = "l115"
    /\ pc' = IF verify(loc.decrypted_alice, loc.nonce_alice, loc.random_hash_alice)
             THEN "l116" ELSE "AssertionError"
    /\ UNCHANGED <<loc, otherVars>>

\* mutant: the assertion on bob's reveal is not evaluated
AssertBobSkipped ==
    /\ pc = "l116"
    /\ pc' = "l121"
    /\ UNCHANGED <<loc, otherVars>>

\* assert verify(decrypted_bob, nonce_bob, random_hash_bob)
AssertBob ==
    /\ pc = "l116"
    /\ pc' = IF verify(loc.decrypted_bob, loc.nonce_bob, loc.random_hash_bob)
             THEN "l121" ELSE "AssertionError"
    /\ UNCHANGED <<loc, otherVars>>

\* final_random_number = xor_all([decrypted_alice, decrypted_bob])
XorReveals ==
    /\ pc = "l121"
    /\ LET r == xor_all(<<loc.decrypted_alice, loc.decrypted_bob>>)
       IN  IF r.st = "raise"
           THEN pc' = r.exc /\ loc' = loc
           ELSE loc' = [loc EXCEPT !.final_random_number = r.val] /\ pc' = "done"
    /\ UNCHANGED otherVars

NextMain ==
    \/ GenerateAlice \/ GenerateBob
    \/ EncryptAlice \/ EncryptBob
    \/ DecryptAlice \/ DecryptBob
    \/ AssertAlice \/ AssertBob
    \/ XorReveals

SpecMain == InitMain /\ [][NextMain]_vars

(***************************************************************************)
(* Claims about the round, under SpecMain.                                 *)
(***************************************************************************)
\* main has returned or has raised
MainEnded == pc \in {"done", "AssertionError", "CryptoError", "IndexError"}
\* both reveals are decrypted
Decrypted == pc \in {"l115", "l116", "l121", "done", "AssertionError"}
VerifiesAlice == verify(loc.decrypted_alice, loc.nonce_alice, loc.random_hash_alice)
VerifiesBob == verify(loc.decrypted_bob, loc.nonce_bob, loc.random_hash_bob)

C10_VerifyBeforeAggregate ==
    (pc \in {"l121", "done"}) =>
        /\ Ok(<<loc.decrypted_alice, loc.nonce_alice>>)
              = decrypt(loc.number_bytes, loc.encrypted_alice, randy, public_key(alice))
        /\ Ok(<<loc.decrypted_bob, loc.nonce_bob>>)
              = decrypt(loc.number_bytes, loc.encrypted_bob, randy, public_key(bob))
        /\ <<loc.random_bytes_alice, loc.random_hash_alice>>
              \in generate(loc.number_bytes, loc.nonce, None)
        /\ <<loc.random_bytes_bob, loc.random_hash_bob>>
              \in generate(loc.number_bytes, loc.nonce, Some(loc.forged_bytes))
        /\ VerifiesAlice /\ VerifiesBob
        /\ pc = "done" =>
              Ok(loc.final_random_number) = xor_all(<<loc.decrypted_alice, loc.decrypted_bob>>)

C10_Witness ==
    /\ pc = "done"
    /\ loc.nonce = 0 /\ loc.number_bytes = NumberBytes /\ loc.forged_bytes = DeadBeef4
    /\ loc.decrypted_bob = DeadBeef4 /\ VerifiesAlice /\ VerifiesBob
    /\ Len(loc.final_random_number) = NumberBytes

====
